---- MODULE Spec2Model ----
(***************************************************************************)
(* Model of the electrical-network closure-table builder:                  *)
(*   network_builder.py  NetworkXAdapter, ManualNetworkAdapter,            *)
(*                       NetworkBuilder                                    *)
(*   main.py             the traversal loop of main()                      *)
(* A Python dict is a sequence of <<key, value>> pairs in insertion order  *)
(* where only the order is observable (get_nodes), a function where it is  *)
(* not.  An attribute bag (keyword arguments) is a set of <<name, value>>.  *)
(***************************************************************************)
EXTENDS Integers, Sequences, FiniteSets, TLC

\* Node ids are 1..MaxId.
MaxId == 3
\* Number of node records (distinct ids) the input may hold.
MaxNodos == 2
\* Number of node records of a network bfs_traversal is called on directly
\* (its other nodes are ends of edges).
MaxRecords == 1
\* Number of distinct segments the input of the main program may hold.
MaxSegmentos == 2
\* Number of distinct edges of a network bfs_traversal is called on directly.
MaxEdges == 3

NodeIds == 1..MaxId

\* Python's None in parent_map (node ids are positive).
None == 0

\* The root marker compared in find_subestacion_node.
Subestacion == "Subestacion"
\* Type classifications of the node records.
Tipos == {Subestacion, "POSTE EN H"}

\* The keyword arguments build_network passes to add_node for one Nodo.
NodoAttributes(tipo) == {<<"nombre", "N">>, <<"tipo", tipo>>}

\* dict.get(name) on an attribute bag: the value, or "None" when absent.
AttrGet(attrs, name) ==
    IF \E p \in attrs : p[1] = name
    THEN (CHOOSE p \in attrs : p[1] = name)[2]
    ELSE "None"

\* dict.update(new) on an attribute bag.
AttrUpdate(old, new) == new \cup {p \in old : \A q \in new : q[1] # p[1]}

\* ---- Python dict as an insertion-ordered sequence of pairs ----
DictKeys(d) == [i \in 1..Len(d) |-> d[i][1]]
DictHas(d, k) == \E i \in 1..Len(d) : d[i][1] = k
DictGet(d, k, default) ==
    IF DictHas(d, k) THEN d[CHOOSE i \in 1..Len(d) : d[i][1] = k][2] ELSE default
DictSet(d, k, v) ==
    IF DictHas(d, k)
    THEN [i \in 1..Len(d) |-> IF d[i][1] = k THEN <<k, v>> ELSE d[i]]
    ELSE Append(d, <<k, v>>)

SeqToSet(s) == {s[i] : i \in 1..Len(s)}
SeqHas(s, x) == \E i \in 1..Len(s) : s[i] = x
\* All orders in which the members of a finite set can be listed.
Orderings(S) ==
    {s \in [1..Cardinality(S) -> S] : \A i, j \in 1..Cardinality(S) : s[i] = s[j] => i = j}

\* ---- NetworkXAdapter (nx.Graph: _node in insertion order, _adj) ----
EmptyGraph == [node |-> <<>>, adj |-> <<>>]

NX_ensure(g, n) ==
    IF DictHas(g.node, n) THEN g
    ELSE [node |-> Append(g.node, <<n, {}>>), adj |-> g.adj @@ (n :> <<>>)]

NetworkXAdapter_add_node(g, node_id, attributes) ==
    IF DictHas(g.node, node_id)
    THEN [g EXCEPT !.node = DictSet(@, node_id, AttrUpdate(DictGet(@, node_id, {}), attributes))]
    ELSE [node |-> Append(g.node, <<node_id, attributes>>), adj |-> g.adj @@ (node_id :> <<>>)]

NX_link(adj, u, v) ==
    [adj EXCEPT ![u] = IF SeqHas(@, v) THEN @ ELSE Append(@, v)]

NetworkXAdapter_add_edge(g, node_from, node_to) ==
    LET g2 == NX_ensure(NX_ensure(g, node_from), node_to)
    IN  [g2 EXCEPT !.adj = NX_link(NX_link(@, node_from, node_to), node_to, node_from)]

NetworkXAdapter_get_nodes(g) == DictKeys(g.node)

\* ---- ManualNetworkAdapter (self.nodes, self.edges) ----
ManualNetworkAdapter_add_node(ns, es, node_id, attributes) ==
    [nodes |-> DictSet(ns, node_id, attributes),
     edges |-> IF node_id \in DOMAIN es THEN es ELSE es @@ (node_id :> {})]

\* Mutant: the edge is recorded at node_from only.
ManualNetworkAdapter_add_edge_OneWay(ns, es, node_from, node_to) ==
    LET e1 == IF node_from \in DOMAIN es THEN es ELSE es @@ (node_from :> {})
        e2 == IF node_to \in DOMAIN e1 THEN e1 ELSE e1 @@ (node_to :> {})
    IN  [nodes |-> ns, edges |-> [e2 EXCEPT ![node_from] = @ \cup {node_to}]]

ManualNetworkAdapter_add_edge(ns, es, node_from, node_to) ==
    LET e1 == IF node_from \in DOMAIN es THEN es ELSE es @@ (node_from :> {})
        e2 == IF node_to \in DOMAIN e1 THEN e1 ELSE e1 @@ (node_to :> {})
        e3 == [e2 EXCEPT ![node_from] = @ \cup {node_to}]
    IN  [nodes |-> ns, edges |-> [e3 EXCEPT ![node_to] = @ \cup {node_from}]]

ManualNetworkAdapter_get_nodes(ns) == DictKeys(ns)

\* ---- get_neighbors / get_node_attributes ----
\* NetworkXAdapter.get_neighbors: the adjacency of node_id in insertion order.
\* nx.Graph.neighbors raises NetworkXError for a node that is not in the graph;
\* callers test NX_has_node first.
NX_has_node(g, node_id) == DictHas(g.node, node_id)
NetworkXAdapter_get_neighbors(g, node_id) == g.adj[node_id]
\* dict(self.graph.nodes[node_id]) raises KeyError for a node that is not in the
\* graph; the callers modelled here pass members of get_nodes() only.
NetworkXAdapter_get_node_attributes(g, node_id) == DictGet(g.node, node_id, {})

\* ManualNetworkAdapter.get_neighbors: list(set) - the members of the set in an
\* order the language does not define, so every order is a possible result.
ManualNetworkAdapter_get_neighbors(es, node_id) ==
    Orderings(IF node_id \in DOMAIN es THEN es[node_id] ELSE {})
ManualNetworkAdapter_get_node_attributes(ns, node_id) == DictGet(ns, node_id, {})

\* ---- bfs_traversal (the same code in both adapters) ----
\* State of one call: closure_entries, visited, queue, parent_map.
BfsStart(start_node) ==
    [closure_entries |-> <<>>,
     visited         |-> {start_node},
     queue           |-> <<(<<start_node, start_node, 0>>)>>,
     parent_map      |-> (start_node :> None)]

\* Mutant: the walk forgets "temp_depth += 1".
RECURSIVE WalkParentChain_NoIncrement(_, _, _, _, _)
WalkParentChain_NoIncrement(entries, parent_map, temp_ancestor, temp_depth, neighbor) ==
    IF temp_ancestor \in DOMAIN parent_map /\ parent_map[temp_ancestor] # None
    THEN LET up == parent_map[temp_ancestor]
         IN  WalkParentChain_NoIncrement(Append(entries, <<up, neighbor, temp_depth>>),
                                         parent_map, up, temp_depth, neighbor)
    ELSE entries

\* Mutant: the walk stops below the root (it tests the parent of the parent).
RECURSIVE WalkParentChain_StopsBelowRoot(_, _, _, _, _)
WalkParentChain_StopsBelowRoot(entries, parent_map, temp_ancestor, temp_depth, neighbor) ==
    IF /\ temp_ancestor \in DOMAIN parent_map
       /\ parent_map[temp_ancestor] # None
       /\ parent_map[parent_map[temp_ancestor]] # None
    THEN LET up == parent_map[temp_ancestor]
         IN  WalkParentChain_StopsBelowRoot(Append(entries, <<up, neighbor, temp_depth + 1>>),
                                            parent_map, up, temp_depth + 1, neighbor)
    ELSE entries

\* The inner while loop: walk up the parent chain from temp_ancestor.
RECURSIVE WalkParentChain(_, _, _, _, _)
WalkParentChain(entries, parent_map, temp_ancestor, temp_depth, neighbor) ==
    IF temp_ancestor \in DOMAIN parent_map /\ parent_map[temp_ancestor] # None
    THEN LET up == parent_map[temp_ancestor]
         IN  WalkParentChain(Append(entries, <<up, neighbor, temp_depth + 1>>),
                             parent_map, up, temp_depth + 1, neighbor)
    ELSE entries

\* Mutant: the direct relationship (current, neighbor, 1) is not appended.
VisitNeighbor_NoDirectEntry(s, current, neighbor) ==
    IF neighbor \in s.visited THEN s
    ELSE LET pm == (neighbor :> current) @@ s.parent_map
         IN  [closure_entries |->
                  WalkParentChain(s.closure_entries, pm, current, 1, neighbor),
              visited    |-> s.visited \cup {neighbor},
              queue      |-> Append(s.queue, <<current, neighbor, 1>>),
              parent_map |-> pm]

\* Body of "for neighbor in get_neighbors(current)" for one neighbor.
VisitNeighbor(s, current, neighbor) ==
    IF neighbor \in s.visited THEN s
    ELSE LET pm == (neighbor :> current) @@ s.parent_map
         IN  [closure_entries |->
                  WalkParentChain(Append(s.closure_entries, <<current, neighbor, 1>>),
                                  pm, current, 1, neighbor),
              visited    |-> s.visited \cup {neighbor},
              queue      |-> Append(s.queue, <<current, neighbor, 1>>),
              parent_map |-> pm]

\* Mutant: the loop over the neighbors ends after the first one.
ForNeighbors_FirstOnly(s, current, neighbors) ==
    IF neighbors = <<>> THEN s
    ELSE VisitNeighbor(s, current, Head(neighbors))

RECURSIVE ForNeighbors(_, _, _)
ForNeighbors(s, current, neighbors) ==
    IF neighbors = <<>> THEN s
    ELSE ForNeighbors(VisitNeighbor(s, current, Head(neighbors)), current, Tail(neighbors))

\* Mutant: the item is read but stays at the head of the queue.
PopLeft_NoRemove(s) ==
    LET item == Head(s.queue)
    IN  [s EXCEPT !.closure_entries =
                      IF item[1] = item[2] THEN Append(@, <<item[2], item[2], 0>>) ELSE @]

\* queue.popleft() and the self-entry test "if ancestor == current".
PopLeft(s) ==
    LET item == Head(s.queue)
    IN  [s EXCEPT !.queue = Tail(@),
                  !.closure_entries =
                      IF item[1] = item[2] THEN Append(@, <<item[2], item[2], 0>>) ELSE @]

\* Mutant: the loop lists every node of the network instead of the neighbors.
NeighborLists_AllNodes(un, g, es, node_id) ==
    IF un THEN {DictKeys(g.node)} ELSE Orderings(DOMAIN es)

\* The lists get_neighbors(node_id) may return on the adapter in use.
NeighborLists(un, g, es, node_id) ==
    IF un THEN {NetworkXAdapter_get_neighbors(g, node_id)}
    ELSE ManualNetworkAdapter_get_neighbors(es, node_id)

\* "while queue": every final state the loop can reach from s.
RECURSIVE BfsLoop(_, _, _, _)
BfsLoop(s, un, g, es) ==
    IF s.queue = <<>> THEN {s}
    ELSE LET current == Head(s.queue)[2]
         IN  UNION {BfsLoop(ForNeighbors(PopLeft(s), current, nl), un, g, es) :
                        nl \in NeighborLists(un, g, es, current)}

\* bfs_traversal(start_node): the set of possible outcomes.  On NetworkX a
\* start node that is not in the graph makes get_neighbors raise in the first
\* iteration; the manual adapter returns normally.
bfs_traversal(un, g, es, start_node) ==
    IF un /\ ~NX_has_node(g, start_node)
    THEN {[outcome |-> "NetworkXError", start_node |-> start_node,
           closure_entries |-> <<>>, parent_map |-> <<>>, visited |-> {}]}
    ELSE {[outcome |-> "returned", start_node |-> start_node,
           closure_entries |-> s.closure_entries,
           parent_map |-> s.parent_map, visited |-> s.visited] :
              s \in BfsLoop(BfsStart(start_node), un, g, es)}

\* ---- NetworkBuilder ----
get_nodes(un, g, ns) ==
    IF un THEN NetworkXAdapter_get_nodes(g) ELSE ManualNetworkAdapter_get_nodes(ns)
get_node_attributes(un, g, ns, node_id) ==
    IF un THEN NetworkXAdapter_get_node_attributes(g, node_id)
    ELSE ManualNetworkAdapter_get_node_attributes(ns, node_id)

\* Mutant: the scan keeps the last marked node instead of returning at the first.
find_subestacion_node_LastMatch(un, g, ns) ==
    LET node_list == get_nodes(un, g, ns)
        marked == {i \in 1..Len(node_list) :
                      AttrGet(get_node_attributes(un, g, ns, node_list[i]), "tipo") = Subestacion}
    IN  IF marked = {} THEN [outcome |-> "ValueError", node_id |-> None]
        ELSE [outcome |-> "returned",
              node_id |-> node_list[CHOOSE i \in marked : \A j \in marked : j <= i]]

\* find_subestacion_node: scan get_nodes() in order; ValueError when exhausted.
RECURSIVE FindFrom(_, _, _, _, _)
FindFrom(node_list, i, un, g, ns) ==
    IF i > Len(node_list) THEN [outcome |-> "ValueError", node_id |-> None]
    ELSE IF AttrGet(get_node_attributes(un, g, ns, node_list[i]), "tipo") = Subestacion
         THEN [outcome |-> "returned", node_id |-> node_list[i]]
         ELSE FindFrom(node_list, i + 1, un, g, ns)
find_subestacion_node(un, g, ns) == FindFrom(get_nodes(un, g, ns), 1, un, g, ns)

VARIABLES
    use_networkx,        \* NetworkBuilder(use_networkx)
    graph,               \* NetworkXAdapter.graph
    nodes,               \* ManualNetworkAdapter.nodes
    edges,               \* ManualNetworkAdapter.edges
    pc,                  \* position of the program
    idx,                 \* position of main's for-loop in get_nodes()
    all_closure_entries, \* main: aggregate entry list
    visited_global,      \* main: nodes already covered
    calls,               \* the bfs_traversal calls main has made, in order
    result,              \* outcome of the last direct call on the built network
    api,                 \* the last call made on the adapter objects themselves
    frame                \* a bfs_traversal call in progress, one loop iteration a step

vars == <<use_networkx, graph, nodes, edges, pc, idx, all_closure_entries,
          visited_global, calls, result, api, frame>>
net == <<graph, nodes, edges>>

\* The undirected edges the adapter in use holds, each as the set of its ends.
Links(un, g, es) ==
    IF un THEN UNION {{{a, g.adj[a][i]} : i \in 1..Len(g.adj[a])} : a \in DOMAIN g.adj}
    ELSE UNION {{{a, b} : b \in es[a]} : a \in DOMAIN es}

\* No adapter-level call has been made.
NoCall ==
    [op |-> "none", node_id |-> None, arg |-> None, outcome |-> "none", value |-> None,
     n |-> 0]

\* No bfs_traversal call is in progress.  enqueued and dequeued record the
\* nodes appended to and popped from the queue so far, in order.
NoFrame ==
    [pc |-> "idle", start_node |-> None, s |-> BfsStart(None),
     enqueued |-> <<>>, dequeued |-> <<>>]

NoResult ==
    [call |-> "none", outcome |-> "none", node |-> None,
     closure_entries |-> <<>>, parent_map |-> <<>>, visited |-> {}]

Init ==
    /\ use_networkx \in BOOLEAN
    /\ graph = EmptyGraph
    /\ nodes = <<>>
    /\ edges = <<>>
    /\ pc = "nodos"
    /\ idx = 0
    /\ all_closure_entries = <<>>
    /\ visited_global = {}
    /\ calls = <<>>
    /\ result = NoResult
    /\ api = NoCall
    /\ frame = NoFrame

\* add_node on the adapter NetworkBuilder holds.
add_node(node_id, attributes) ==
    IF use_networkx
    THEN /\ graph' = NetworkXAdapter_add_node(graph, node_id, attributes)
         /\ UNCHANGED <<nodes, edges>>
    ELSE LET m == ManualNetworkAdapter_add_node(nodes, edges, node_id, attributes)
         IN  /\ nodes' = m.nodes
             /\ edges' = m.edges
             /\ UNCHANGED graph

\* add_edge on the adapter NetworkBuilder holds.
add_edge(node_from, node_to) ==
    IF use_networkx
    THEN /\ graph' = NetworkXAdapter_add_edge(graph, node_from, node_to)
         /\ UNCHANGED <<nodes, edges>>
    ELSE LET m == ManualNetworkAdapter_add_edge(nodes, edges, node_from, node_to)
         IN  /\ nodes' = m.nodes
             /\ edges' = m.edges
             /\ UNCHANGED graph

\* build_network, first loop: one Nodo of the input list.
BuildAddNode(node_id, tipo, bound) ==
    /\ pc = "nodos"
    /\ \/ DictHas(IF use_networkx THEN graph.node ELSE nodes, node_id)
       \/ Len(IF use_networkx THEN graph.node ELSE nodes) < bound
    /\ add_node(node_id, NodoAttributes(tipo))
    /\ UNCHANGED <<frame, api, use_networkx, pc, idx, all_closure_entries, visited_global, calls, result>>

\* build_network, second loop: one Segmento of the input list.
BuildAddEdge(node_from, node_to, bound) ==
    /\ pc \in {"nodos", "segmentos"}
    /\ \/ {node_from, node_to} \in Links(use_networkx, graph, edges)
       \/ Cardinality(Links(use_networkx, graph, edges)) < bound
    /\ add_edge(node_from, node_to)
    /\ pc' = "segmentos"
    /\ UNCHANGED <<frame, api, use_networkx, idx, all_closure_entries, visited_global, calls, result>>

\* Mutant: only the ancestors of the entries are marked.
MarkVisited_AncestorsOnly(visited, closure_entries) ==
    visited \cup {closure_entries[i][1] : i \in 1..Len(closure_entries)}

\* main: "for ancestor, descendant, depth in closure_entries: visited_global.add"
MarkVisited(visited, closure_entries) ==
    visited \cup {closure_entries[i][1] : i \in 1..Len(closure_entries)}
            \cup {closure_entries[i][2] : i \in 1..Len(closure_entries)}

NodeList == get_nodes(use_networkx, graph, nodes)

\* main: build_network has returned; all_closure_entries = [], visited_global = set().
StartTraversal ==
    /\ pc \in {"nodos", "segmentos"}
    /\ pc' = IF Len(NodeList) = 0 THEN "done" ELSE "loop"
    /\ idx' = 1
    /\ all_closure_entries' = <<>>
    /\ visited_global' = {}
    /\ UNCHANGED <<frame, api, use_networkx, net, calls, result>>

\* main: one iteration of "for start_node in network.get_nodes()" that traverses.
LoopTraverse ==
    /\ pc = "loop"
    /\ NodeList[idx] \notin visited_global
    /\ \E r \in bfs_traversal(use_networkx, graph, edges, NodeList[idx]) :
          /\ r.outcome = "returned"
          /\ all_closure_entries' = all_closure_entries \o r.closure_entries
          /\ visited_global' = MarkVisited(visited_global, r.closure_entries)
          /\ calls' = Append(calls, r)
    /\ idx' = idx + 1
    /\ pc' = IF idx + 1 > Len(NodeList) THEN "done" ELSE "loop"
    /\ UNCHANGED <<frame, api, use_networkx, net, result>>

\* main: one iteration whose start_node is already in visited_global.
LoopSkip ==
    /\ pc = "loop"
    /\ NodeList[idx] \in visited_global
    /\ idx' = idx + 1
    /\ pc' = IF idx + 1 > Len(NodeList) THEN "done" ELSE "loop"
    /\ UNCHANGED <<frame, api, use_networkx, net, all_closure_entries, visited_global, calls, result>>

\* A direct call of find_subestacion_node on the built network.
CallFindSubestacion ==
    /\ pc \in {"nodos", "segmentos"}
    /\ LET f == find_subestacion_node(use_networkx, graph, nodes)
       IN  result' = [NoResult EXCEPT !.call = "find_subestacion_node",
                                      !.outcome = f.outcome, !.node = f.node_id]
    /\ pc' = "called"
    /\ UNCHANGED <<frame, api, use_networkx, net, idx, all_closure_entries, visited_global, calls>>

\* A direct call of network.bfs_traversal(start_node) on the built network.
CallBfsTraversal(start_node) ==
    /\ pc \in {"nodos", "segmentos"}
    /\ \E r \in bfs_traversal(use_networkx, graph, edges, start_node) :
          result' = [call |-> "bfs_traversal", outcome |-> r.outcome, node |-> start_node,
                     closure_entries |-> r.closure_entries,
                     parent_map |-> r.parent_map, visited |-> r.visited]
    /\ pc' = "called"
    /\ UNCHANGED <<frame, api, use_networkx, net, idx, all_closure_entries, visited_global, calls>>

\* The program: build_network, then main's traversal loop or the root selector.
Next ==
    \/ \E n \in NodeIds, t \in Tipos : BuildAddNode(n, t, MaxNodos)
    \/ \E a, b \in NodeIds : BuildAddEdge(a, b, MaxSegmentos)
    \/ StartTraversal
    \/ LoopTraverse
    \/ LoopSkip
    \/ CallFindSubestacion

Spec == Init /\ [][Next]_vars

\* Any network of up to MaxEdges edges, then one bfs_traversal call from any
\* start node.
NextBfs ==
    \/ \E n \in NodeIds : BuildAddNode(n, "POSTE EN H", MaxRecords)
    \/ \E a, b \in NodeIds : BuildAddEdge(a, b, MaxEdges)
    \/ \E n \in NodeIds : CallBfsTraversal(n)

SpecBfs == Init /\ [][NextBfs]_vars

\* Any network of up to MaxEdges edges, then main's traversal loop.
NextLoop ==
    \/ \E n \in NodeIds : BuildAddNode(n, "POSTE EN H", MaxNodos)
    \/ \E a, b \in NodeIds : BuildAddEdge(a, b, MaxEdges)
    \/ StartTraversal
    \/ LoopTraverse
    \/ LoopSkip

SpecLoop == Init /\ [][NextLoop]_vars

\* ---- The adapter interface called directly (two objects, the same calls) ----
\* Node ids and keyword arguments of the direct calls; api.n counts the
\* add_node and add_edge calls made, at most MaxCalls.
MaxApiId == 2
MaxCalls == 3
ApiIds == 1..MaxApiId
ApiBags == {{<<"nombre", "N">>}, {<<"tipo", "POSTE EN H">>}}

\* get_neighbors(node_id) as a call: the outcomes it can have.  On NetworkX
\* self.graph.neighbors raises NetworkXError for a node that is not in the graph.
call_get_neighbors(un, g, es, node_id) ==
    IF un /\ ~NX_has_node(g, node_id)
    THEN {[outcome |-> "NetworkXError", value |-> <<>>]}
    ELSE {[outcome |-> "returned", value |-> nl] : nl \in NeighborLists(un, g, es, node_id)}

\* get_node_attributes(node_id) as a call.  On NetworkX self.graph.nodes[node_id]
\* raises KeyError for a node that is not in the graph.
call_get_node_attributes(un, g, ns, node_id) ==
    IF un /\ ~NX_has_node(g, node_id)
    THEN [outcome |-> "KeyError", value |-> {}]
    ELSE [outcome |-> "returned", value |-> get_node_attributes(un, g, ns, node_id)]

\* add_node(node_id, attributes) on a NetworkXAdapter and a ManualNetworkAdapter.
ApiAddNode(node_id, attributes) ==
    /\ pc = "nodos"
    /\ api.n < MaxCalls
    /\ graph' = NetworkXAdapter_add_node(graph, node_id, attributes)
    /\ LET m == ManualNetworkAdapter_add_node(nodes, edges, node_id, attributes)
       IN  nodes' = m.nodes /\ edges' = m.edges
    /\ api' = [op |-> "add_node", node_id |-> node_id, arg |-> attributes,
               outcome |-> "returned", value |-> None, n |-> api.n + 1]
    /\ UNCHANGED <<frame, use_networkx, pc, idx, all_closure_entries, visited_global, calls, result>>

\* add_edge(node_from, node_to) on both objects.
ApiAddEdge(node_from, node_to) ==
    /\ pc = "nodos"
    /\ api.n < MaxCalls
    /\ graph' = NetworkXAdapter_add_edge(graph, node_from, node_to)
    /\ LET m == ManualNetworkAdapter_add_edge(nodes, edges, node_from, node_to)
       IN  nodes' = m.nodes /\ edges' = m.edges
    /\ api' = [op |-> "add_edge", node_id |-> node_from, arg |-> node_to,
               outcome |-> "returned", value |-> None, n |-> api.n + 1]
    /\ UNCHANGED <<frame, use_networkx, pc, idx, all_closure_entries, visited_global, calls, result>>

\* get_neighbors(node_id) on the object use_networkx selects.
ApiGetNeighbors(node_id) ==
    /\ pc = "nodos"
    /\ \E r \in call_get_neighbors(use_networkx, graph, edges, node_id) :
          api' = [op |-> "get_neighbors", node_id |-> node_id, arg |-> None,
                  outcome |-> r.outcome, value |-> r.value, n |-> api.n]
    /\ UNCHANGED <<frame, use_networkx, net, pc, idx, all_closure_entries, visited_global, calls, result>>

\* get_node_attributes(node_id) on the object use_networkx selects.
ApiGetNodeAttributes(node_id) ==
    /\ pc = "nodos"
    /\ LET r == call_get_node_attributes(use_networkx, graph, nodes, node_id)
       IN  api' = [op |-> "get_node_attributes", node_id |-> node_id, arg |-> None,
                   outcome |-> r.outcome, value |-> r.value, n |-> api.n]
    /\ UNCHANGED <<frame, use_networkx, net, pc, idx, all_closure_entries, visited_global, calls, result>>

\* Any sequence of calls on the two adapter objects.
NextApi ==
    \/ \E n \in ApiIds, attributes \in ApiBags : ApiAddNode(n, attributes)
    \/ \E a, b \in ApiIds : ApiAddEdge(a, b)
    \/ \E n \in ApiIds : ApiGetNeighbors(n)
    \/ \E n \in ApiIds : ApiGetNodeAttributes(n)

SpecApi == Init /\ [][NextApi]_vars

\* ---- bfs_traversal on the manual adapter, whose neighbor order is undefined ----
\* Node ids and number of distinct edges of these networks.
MaxOrderId == 4
MaxOrderEdges == 4
OrderIds == 1..MaxOrderId

InitOrder == Init /\ use_networkx = FALSE

\* Any network of up to MaxOrderEdges edges between different nodes (the sets
\* of the manual adapter do not keep the order of the ends), then one
\* bfs_traversal call from any start node.
NextOrder ==
    \/ \E a, b \in OrderIds : a < b /\ BuildAddEdge(a, b, MaxOrderEdges)
    \/ \E n \in OrderIds : CallBfsTraversal(n)

SpecOrder == InitOrder /\ [][NextOrder]_vars

\* ---- bfs_traversal one iteration of "while queue" at a time ----
\* The call: closure_entries, visited, queue and parent_map are initialised.
StepCall(start_node) ==
    /\ pc \in {"nodos", "segmentos"}
    /\ frame' = [pc |-> "loop", start_node |-> start_node, s |-> BfsStart(start_node),
                 enqueued |-> <<start_node>>, dequeued |-> <<>>]
    /\ pc' = "called"
    /\ UNCHANGED <<use_networkx, net, idx, all_closure_entries, visited_global, calls,
                   result, api>>

\* The descendants of the items of a queue.
QueuedNodes(queue) == [i \in 1..Len(queue) |-> queue[i][2]]

\* One iteration of "while queue": popleft, the self-entry test and the loop
\* over get_neighbors(current).  On NetworkX get_neighbors raises for a node
\* that is not in the graph.
StepIterate ==
    /\ frame.pc = "loop"
    /\ frame.s.queue # <<>>
    /\ LET current == Head(frame.s.queue)[2]
           popped == PopLeft(frame.s)
       IN  IF use_networkx /\ ~NX_has_node(graph, current)
           THEN frame' = [frame EXCEPT !.pc = "NetworkXError", !.s = popped,
                                       !.dequeued = Append(@, current)]
           ELSE \E nl \in NeighborLists(use_networkx, graph, edges, current) :
                   LET after == ForNeighbors(popped, current, nl)
                   IN  frame' = [frame EXCEPT
                           !.s = after,
                           !.dequeued = Append(@, current),
                           !.enqueued = @ \o SubSeq(QueuedNodes(after.queue),
                                                    Len(popped.queue) + 1, Len(after.queue))]
    /\ UNCHANGED <<use_networkx, net, pc, idx, all_closure_entries, visited_global, calls,
                   result, api>>

\* The queue is empty: "return closure_entries".
StepReturn ==
    /\ frame.pc = "loop"
    /\ frame.s.queue = <<>>
    /\ frame' = [frame EXCEPT !.pc = "returned"]
    /\ result' = [call |-> "bfs_traversal", outcome |-> "returned", node |-> frame.start_node,
                  closure_entries |-> frame.s.closure_entries,
                  parent_map |-> frame.s.parent_map, visited |-> frame.s.visited]
    /\ UNCHANGED <<use_networkx, net, pc, idx, all_closure_entries, visited_global, calls, api>>

\* Any network of up to MaxEdges edges (self-loops included), then one
\* bfs_traversal call run iteration by iteration.
NextStep ==
    \/ \E a, b \in NodeIds : a <= b /\ BuildAddEdge(a, b, MaxEdges)
    \/ \E n \in NodeIds : StepCall(n)
    \/ StepIterate
    \/ StepReturn

SpecStep == Init /\ [][NextStep]_vars

\* The program is the only thread: a call that can take a step takes it.
FairSpecStep == SpecStep /\ WF_vars(StepIterate) /\ WF_vars(StepReturn)

\* ---- Graph-theoretic vocabulary of the claims (independent of bfs_traversal) ----
TheLinks == Links(use_networkx, graph, edges)

\* Every node id the adapter in use knows, as a node record or as an edge end.
GraphNodes ==
    IF use_networkx THEN SeqToSet(DictKeys(graph.node))
    ELSE SeqToSet(DictKeys(nodes)) \cup DOMAIN edges

\* b is listed as a neighbor of a by the adapter in use.
Listed(a, b) ==
    IF use_networkx THEN a \in DOMAIN graph.adj /\ SeqHas(graph.adj[a], b)
    ELSE a \in DOMAIN edges /\ b \in edges[a]

\* An edge joins a and b.
Adjacent(a, b) == Listed(a, b) \/ Listed(b, a)

RECURSIVE Closure(_)
Closure(S) ==
    LET N == S \cup {b \in GraphNodes : \E a \in S : Adjacent(a, b)}
    IN  IF N = S THEN S ELSE Closure(N)

\* The connected component of n in the undirected graph.
Component(n) == Closure({n})

RECURSIVE DistSearch(_, _, _, _)
DistSearch(seen, frontier, target, k) ==
    IF target \in frontier THEN k
    ELSE IF frontier = {} THEN -1
    ELSE LET nxt == {b \in GraphNodes \ seen : \E a \in frontier : Adjacent(a, b)}
         IN  DistSearch(seen \cup nxt, nxt, target, k + 1)

\* Minimum number of edges on a path between a and b (-1: no path).
Dist(a, b) == DistSearch({a}, {a}, b, 0)

\* Number of occurrences of e in the list s.
Count(s, e) == Cardinality({i \in 1..Len(s) : s[i] = e})

\* The k-th tree ancestor of d under parent map pm (None above the root).
RECURSIVE AncestorAt(_, _, _)
AncestorAt(pm, d, k) ==
    IF k = 0 THEN d
    ELSE IF d \notin DOMAIN pm \/ pm[d] = None THEN None
    ELSE AncestorAt(pm, pm[d], k - 1)

\* No two entries of the list share (ancestor, descendant).
UniquePairs(s) ==
    \A i, j \in 1..Len(s) : (s[i][1] = s[j][1] /\ s[i][2] = s[j][2]) => i = j

\* A direct bfs_traversal(root) call has returned, root being a node of the graph.
BfsReturned ==
    /\ result.call = "bfs_traversal"
    /\ result.outcome = "returned"
    /\ result.node \in GraphNodes

\* C1: the list returned by bfs_traversal(root) holds exactly one entry (n, n, 0)
\* for every node n reachable from root, the non-root nodes included.
C1_SelfEntryForEveryReachableNode ==
    BfsReturned =>
        \A n \in Component(result.node) : Count(result.closure_entries, <<n, n, 0>>) = 1

\* C2: with parent the BFS tree of the call, every reached node d has exactly one
\* entry (a, d, k) for each strict tree ancestor a, k tree edges above d, and no
\* entry of depth > 0 relates a node to anything but its k-th tree ancestor.
C2_EntriesAreTheTreeAncestors ==
    BfsReturned =>
        LET pm == result.parent_map
            es == result.closure_entries
            reached == Component(result.node)
        IN  /\ DOMAIN pm = reached
            /\ \A d \in reached \ {result.node} : Adjacent(pm[d], d)
            /\ \A d \in reached : \A k \in 1..MaxId :
                   AncestorAt(pm, d, k) # None =>
                       Count(es, <<AncestorAt(pm, d, k), d, k>>) = 1
            /\ \A i \in 1..Len(es) :
                   es[i][3] > 0 => AncestorAt(pm, es[i][2], es[i][3]) = es[i][1]

C2_Witness ==
    /\ BfsReturned
    /\ \E i \in 1..Len(result.closure_entries) : result.closure_entries[i][3] = 2

\* C3: neither the list of one bfs_traversal call nor main's aggregate list
\* all_closure_entries ever holds two entries with the same (ancestor, descendant).
C3_NoDuplicatePairs ==
    /\ UniquePairs(all_closure_entries)
    /\ \A c \in 1..Len(calls) : UniquePairs(calls[c].closure_entries)

\* main has finished two traversals of a graph that has a self-loop.
C3_Witness ==
    /\ pc = "done"
    /\ Len(calls) = 2
    /\ Len(all_closure_entries) >= 3
    /\ \E a \in NodeIds : Adjacent(a, a)

\* C4: every entry (a, d, k) with k > 0 has k equal to the minimum number of
\* edges on a path between a and d in the undirected graph.
C4_DepthIsShortestPath ==
    BfsReturned =>
        \A i \in 1..Len(result.closure_entries) :
            LET e == result.closure_entries[i]
            IN  e[3] > 0 => Dist(e[1], e[2]) = e[3]

\* A traversal of a graph with a cycle: some edge between two distinct reached
\* nodes is not a tree edge.
C4_Witness ==
    /\ BfsReturned
    /\ \E a, b \in result.visited :
          /\ a # b
          /\ Adjacent(a, b)
          /\ result.parent_map[a] # b
          /\ result.parent_map[b] # a

\* C9: bfs_traversal(r) yields exactly one root self-entry (r, r, 0), and the
\* descendants of the entries (r, d, k), k > 0, are exactly the other nodes of
\* r's connected component.
C9_RootReachesExactlyItsComponent ==
    BfsReturned =>
        LET r == result.node
            es == result.closure_entries
        IN  /\ Count(es, <<r, r, 0>>) = 1
            /\ {es[i][2] : i \in {j \in 1..Len(es) : es[j][1] = r /\ es[j][3] > 0}}
                   = Component(r) \ {r}

\* The root has a descendant and the graph has a node outside its component.
C9_Witness ==
    /\ BfsReturned
    /\ Cardinality(Component(result.node)) >= 2
    /\ GraphNodes \ Component(result.node) # {}

\* The node ids one traversal touched: every ancestor or descendant of its entries.
Touched(call) == MarkVisited({}, call.closure_entries)

\* n carries the substation marker.
IsSubestacion(n) ==
    AttrGet(get_node_attributes(use_networkx, graph, nodes, n), "tipo") = Subestacion

\* Position of the first member of S in the list s (0: none).
FirstIn(s, S) ==
    IF \E i \in 1..Len(s) : s[i] \in S
    THEN CHOOSE i \in 1..Len(s) : s[i] \in S /\ \A j \in 1..(i - 1) : s[j] \notin S
    ELSE 0

\* C5: when main's loop has finished, the node sets touched by the individual
\* bfs_traversal calls are pairwise disjoint and their union is the full node id
\* set of the graph (isolated nodes and nodes known only as a segment end included).
C5_TraversalsPartitionTheNodes ==
    pc = "done" =>
        /\ \A i, j \in 1..Len(calls) :
               i # j => Touched(calls[i]) \cap Touched(calls[j]) = {}
        /\ UNION {Touched(calls[i]) : i \in 1..Len(calls)} = GraphNodes

\* C6: every traversal main starts in a component that holds a substation-marked
\* node starts from a substation-marked node.
C6_RootIsTheSubstation ==
    pc = "done" =>
        \A c \in 1..Len(calls) :
            (\E n \in Component(calls[c].start_node) : IsSubestacion(n))
                => IsSubestacion(calls[c].start_node)

\* C7: every component without a substation-marked node is traversed from its
\* first node in get_nodes() order, and each of its nodes is the descendant of
\* some entry of all_closure_entries.
C7_UnmarkedComponentIsCovered ==
    pc = "done" =>
        \A n \in GraphNodes :
            (\A m \in Component(n) : ~IsSubestacion(m)) =>
                /\ \E i \in 1..Len(all_closure_entries) : all_closure_entries[i][2] = n
                /\ \E c \in 1..Len(calls) :
                      /\ FirstIn(NodeList, Component(n)) # 0
                      /\ calls[c].start_node = NodeList[FirstIn(NodeList, Component(n))]

\* The result find_subestacion_node must give on the network as built.
FindResultIsFirstMarked ==
    IF \E i \in 1..Len(NodeList) : IsSubestacion(NodeList[i])
    THEN /\ result.outcome = "returned"
         /\ \E i \in 1..Len(NodeList) :
               /\ NodeList[i] = result.node
               /\ IsSubestacion(NodeList[i])
               /\ \A j \in 1..(i - 1) : ~IsSubestacion(NodeList[j])
    ELSE result.outcome = "ValueError"

\* C8: find_subestacion_node returns the first node of get_nodes() whose tipo is
\* 'Subestacion', raises ValueError when there is none, and leaves the graph as
\* it was.
C8_FindSubestacion ==
    [][(pc # "called" /\ pc' = "called" /\ result'.call = "find_subestacion_node")
          => (net' = net /\ FindResultIsFirstMarked')]_vars

\* The substation returned is not the first node of the list.
C8_Witness ==
    /\ result.call = "find_subestacion_node"
    /\ result.outcome = "returned"
    /\ NodeList[1] # result.node

\* C10: every node id that is an end of some edge is in get_nodes().
C10_EdgeEndsAreNodes ==
    \A e \in TheLinks : e \subseteq SeqToSet(NodeList)

\* C13: bfs_traversal(root) with a root id that is not in the graph is reported
\* as an error and does not return a normal result.
C13_AbsentRootIsRejected ==
    (result.call = "bfs_traversal" /\ result.node \notin GraphNodes)
        => result.outcome # "returned"

\* Depth of n in the tree of parent map pm.
RECURSIVE TreeDepth(_, _)
TreeDepth(pm, n) == IF pm[n] = None THEN 0 ELSE 1 + TreeDepth(pm, pm[n])

\* Sum over the nodes n of S of (1 + depth of n in the tree pm).
RECURSIVE SumOfDepthsPlusOne(_, _)
SumOfDepthsPlusOne(pm, S) ==
    IF S = {} THEN 0
    ELSE LET n == CHOOSE x \in S : TRUE
         IN  1 + TreeDepth(pm, n) + SumOfDepthsPlusOne(pm, S \ {n})

\* C14: the number of entries bfs_traversal(root) returns is the sum, over the
\* nodes n reachable from root, of (1 + depth of n in the BFS tree).
C14_EntryCount ==
    BfsReturned =>
        Len(result.closure_entries)
            = SumOfDepthsPlusOne(result.parent_map, Component(result.node))

\* C15: every entry (a, d, k) of all_closure_entries has a and d in the same
\* connected component of the undirected graph.
C15_EntriesStayInOneComponent ==
    \A i \in 1..Len(all_closure_entries) :
        all_closure_entries[i][2] \in Component(all_closure_entries[i][1])

\* main has finished after traversing two components, one of them with an edge.
C15_Witness ==
    /\ pc = "done"
    /\ Len(calls) = 2
    /\ \E i \in 1..Len(all_closure_entries) : all_closure_entries[i][3] = 1

\* The neighbor set get_neighbors(n) exposes on the adapter in use.
NeighborSet(n) == {b \in NodeIds : Listed(n, b)}

\* C11: a lookup of an id that was never added (by add_node or as an edge end)
\* returns an empty list (get_neighbors) or an empty bag (get_node_attributes)
\* and raises nothing, on both adapters.
C11_AbsentLookupsReturnEmpty ==
    (api.op \in {"get_neighbors", "get_node_attributes"} /\ api.node_id \notin GraphNodes)
        => /\ api.outcome = "returned"
           /\ api.op = "get_neighbors" => api.value = <<>>
           /\ api.op = "get_node_attributes" => api.value = {}

\* C12: add_node(id, attrs2) for an id already present replaces the bag by
\* exactly attrs2, leaves id once in get_nodes(), leaves every neighbor set
\* unchanged, and a second identical call changes nothing.
C12_AddNodeIsUpsert ==
    [][(api'.op = "add_node" /\ api'.node_id \in GraphNodes)
          => /\ get_node_attributes(use_networkx, graph', nodes', api'.node_id) = api'.arg
             /\ Count(get_nodes(use_networkx, graph', nodes'), api'.node_id) = 1
             /\ \A n \in NodeIds : NeighborSet(n)' = NeighborSet(n)
             /\ NetworkXAdapter_add_node(graph', api'.node_id, api'.arg) = graph'
             /\ ManualNetworkAdapter_add_node(nodes', edges', api'.node_id, api'.arg)
                    = [nodes |-> nodes', edges |-> edges']]_vars

\* C17: after any sequence of add_node and add_edge calls, b is listed by
\* get_neighbors(a) exactly when a is listed by get_neighbors(b), and no
\* neighbor list names the same node twice.
C17_SymmetricAdjacency ==
    /\ \A a, b \in NodeIds : Listed(a, b) <=> Listed(b, a)
    /\ \A a \in GraphNodes :
          \A r \in call_get_neighbors(use_networkx, graph, edges, a) :
              r.outcome = "returned" /\ \A b \in NodeIds : Count(r.value, b) <= 1

\* The edge 1-2 has been added twice or more, first as (1, 2) and last as
\* (2, 1), with no add_node call at all, and both ends list each other.
C17_Witness ==
    /\ api.op = "add_edge" /\ api.node_id = 2 /\ api.arg = 1
    /\ nodes = <<>>
    /\ NetworkXAdapter_get_nodes(graph) = <<1, 2>>
    /\ TheLinks = {{1, 2}}
    /\ Listed(1, 2) /\ Listed(2, 1)

\* C18: the two adapters, given the same calls, expose the same node ids, the
\* same neighbor set and the same attribute bag for every id the calls named.
C18_AdaptersAgree ==
    /\ SeqToSet(NetworkXAdapter_get_nodes(graph)) = SeqToSet(ManualNetworkAdapter_get_nodes(nodes))
    /\ \A n \in SeqToSet(NetworkXAdapter_get_nodes(graph)) :
          /\ {[outcome |-> r.outcome, value |-> SeqToSet(r.value)] :
                  r \in call_get_neighbors(TRUE, graph, edges, n)}
               = {[outcome |-> r.outcome, value |-> SeqToSet(r.value)] :
                  r \in call_get_neighbors(FALSE, graph, edges, n)}
          /\ call_get_node_attributes(TRUE, graph, nodes, n)
               = call_get_node_attributes(FALSE, graph, nodes, n)

\* Every outcome bfs_traversal can have on the network and root of the result,
\* one for each way get_neighbors may order the neighbors of each node.
OutcomesOfAnyOrder == bfs_traversal(use_networkx, graph, edges, result.node)

\* C16 (as stated): for every graph and root the set of entries is the same
\* for every order in which get_neighbors lists the neighbors.
C16_NeighborOrderIndependence ==
    BfsReturned =>
        \A r \in OutcomesOfAnyOrder :
            SeqToSet(r.closure_entries) = SeqToSet(result.closure_entries)

\* Every node reachable from root, other than root, has exactly one neighbor
\* that is one edge closer to root.
UniqueCloserNeighbor(root) ==
    \A n \in Component(root) \ {root} :
        Cardinality({m \in GraphNodes : Adjacent(m, n) /\ Dist(root, m) = Dist(root, n) - 1}) = 1

\* C16 (amended): when every reachable node other than the root has exactly
\* one neighbor one edge closer to the root, the set of entries is the same
\* for every order in which get_neighbors lists the neighbors.
C16_OrderIndependenceOfUniqueParents ==
    (BfsReturned /\ UniqueCloserNeighbor(result.node)) =>
        \A r \in OutcomesOfAnyOrder :
            SeqToSet(r.closure_entries) = SeqToSet(result.closure_entries)

\* A traversal of a network with a cycle (a triangle through the root) that
\* meets the condition and whose entry sequence does depend on the order.
C16_Witness ==
    /\ BfsReturned
    /\ UniqueCloserNeighbor(result.node)
    /\ \E a, b \in Component(result.node) \ {result.node} :
          a # b /\ Adjacent(a, b) /\ Adjacent(result.node, a) /\ Adjacent(result.node, b)
    /\ \E r \in OutcomesOfAnyOrder : r.closure_entries # result.closure_entries

\* No node is in the sequence twice.
NoRepeats(q) == \A i, j \in 1..Len(q) : q[i] = q[j] => i = j

\* The queue discipline of the call in progress: no node is enqueued twice,
\* only nodes reachable from the root are enqueued, the nodes dequeued so far
\* are the first nodes enqueued, in the same order, and at the return every
\* reachable node has been enqueued and dequeued.
QueueDiscipline ==
    (frame.pc \in {"loop", "returned"} /\ frame.start_node \in GraphNodes)
        => /\ NoRepeats(frame.enqueued)
           /\ SeqToSet(frame.enqueued) \subseteq Component(frame.start_node)
           /\ Len(frame.dequeued) <= Len(frame.enqueued)
           /\ frame.dequeued = SubSeq(frame.enqueued, 1, Len(frame.dequeued))
           /\ QueuedNodes(frame.s.queue)
                  = SubSeq(frame.enqueued, Len(frame.dequeued) + 1, Len(frame.enqueued))
           /\ frame.pc = "returned"
                  => /\ SeqToSet(frame.enqueued) = Component(frame.start_node)
                     /\ frame.dequeued = frame.enqueued

\* C19: for every graph (cycles and self-loops included) and every root in it,
\* the queue loop of bfs_traversal ends and the call returns; every node
\* reachable from the root is enqueued exactly once and dequeued exactly once,
\* in FIFO order, and no unreachable node is enqueued.
C19_Termination ==
    /\ []QueueDiscipline
    /\ (frame.pc = "loop" /\ frame.start_node \in GraphNodes) ~> (frame.pc = "returned")

\* A call has returned on a network with a cycle through three nodes, after
\* dequeuing all three.
C19_Witness ==
    /\ frame.pc = "returned"
    /\ Len(frame.dequeued) = 3
    /\ \A a, b \in SeqToSet(frame.dequeued) : a # b => Adjacent(a, b)
====
